---------------------------- MODULE Spec2Model ----------------------------
(***************************************************************************)
(* A model of hydronica/go-config: the string-to-field setter              *)
(* (encode.SetField), the environment decoder (env.populate), the file     *)
(* loader (file.Load) and the orchestrator (goConfig.Load).                *)
(*                                                                         *)
(* Go strings are modelled as sequences of one-character strings, so that  *)
(* parsing, trimming and splitting are computed and not assumed.           *)
(***************************************************************************)
EXTENDS Integers, Sequences, FiniteSets, TLC

\* ------------------------------------------------------------------------
\* Bounds of the model
\* ------------------------------------------------------------------------

\* Longest string enumerated exhaustively over Alphabet.
MaxLen == 2

\* Most fields of a struct given to the environment decoder.
MaxFields == 2

\* Most calls of Disable and SetOptions made on one goConfig in a row.
MaxCalls == 3

\* Characters of the exhaustively enumerated input strings: a zero digit, a
\* non-zero digit, a sign and a letter.
Alphabet == {"0", "1", "-", "a"}

StrUpTo(n) == UNION {[1..k -> Alphabet] : k \in 0..n}

\* Further inputs, longer than MaxLen or over other characters: boolean
\* literals, durations, decimals, an explicit plus sign, wide integers, list
\* syntax and a date.
DateLit == <<"2", "0", "1", "0", "-", "0", "8", "-", "1", "0">>

Extras ==
    { <<"t","r","u","e">>, <<"T","r","u","e">>, <<"f","a","l","s","e">>,
      <<"0","s">>, <<"1","s">>, <<"0",".","0">>, <<"1",".","5">>,
      <<"+","0">>, <<"+","1">>, <<"2","0","0">>, <<"-","2","0","0">>,
      <<"1",",","1">>, <<"1",",","a">>, <<"[","1",",","0","1","]">>,
      <<"[","]">>, <<"a",","," ","'","a","'">>, <<"1",",","0",",","1">>,
      <<"1",",","2",",","3">>, <<"[","1",","," ","2",","," ","3","]">>,
      <<"[","[","1","]","]">>,
      DateLit }

Inputs == StrUpTo(MaxLen) \cup Extras

\* ------------------------------------------------------------------------
\* package strings
\* ------------------------------------------------------------------------

UpperLetters == <<"A","B","C","D","E","F","G","H","I","J","K","L","M",
                  "N","O","P","Q","R","S","T","U","V","W","X","Y","Z">>
LowerLetters == <<"a","b","c","d","e","f","g","h","i","j","k","l","m",
                  "n","o","p","q","r","s","t","u","v","w","x","y","z">>

LowerChar(c) ==
    IF \E i \in 1..26 : UpperLetters[i] = c
    THEN LowerLetters[CHOOSE i \in 1..26 : UpperLetters[i] = c]
    ELSE c

\* strings.ToLower
ToLower(s) == [i \in 1..Len(s) |-> LowerChar(s[i])]

RECURSIVE TrimLeft(_, _)
TrimLeft(s, cutset) ==
    IF s # <<>> /\ Head(s) \in cutset THEN TrimLeft(Tail(s), cutset) ELSE s

RECURSIVE TrimRight(_, _)
TrimRight(s, cutset) ==
    IF s # <<>> /\ s[Len(s)] \in cutset
    THEN TrimRight(SubSeq(s, 1, Len(s) - 1), cutset)
    ELSE s

\* strings.Trim(s, cutset): every leading and trailing character of cutset.
Trim(s, cutset) == TrimRight(TrimLeft(s, cutset), cutset)

\* strings.TrimSpace (the white space of the modelled inputs is the blank).
TrimSpace(s) == Trim(s, {" "})

\* strings.Split(s, sep) for a one-character separator: never empty.
RECURSIVE Split(_, _)
Split(s, sep) ==
    IF \E i \in 1..Len(s) : s[i] = sep
    THEN LET i == CHOOSE j \in 1..Len(s) :
                      s[j] = sep /\ \A k \in 1..(j - 1) : s[k] # sep
         IN  <<SubSeq(s, 1, i - 1)>> \o Split(SubSeq(s, i + 1, Len(s)), sep)
    ELSE <<s>>

\* ------------------------------------------------------------------------
\* package strconv and package time, on the modelled inputs
\* ------------------------------------------------------------------------

Digits == {"0", "1", "2", "3", "4", "5", "6", "7", "8", "9"}

DigitVal(c) == CHOOSE d \in 0..9 : <<"0","1","2","3","4","5","6","7","8","9">>[d + 1] = c

RECURSIVE DecVal(_)
DecVal(s) ==
    IF s = <<>> THEN 0
    ELSE DecVal(SubSeq(s, 1, Len(s) - 1)) * 10 + DigitVal(s[Len(s)])

RECURSIVE Pow10(_)
Pow10(n) == IF n = 0 THEN 1 ELSE 10 * Pow10(n - 1)

Fail == [ok |-> FALSE, v |-> 0]
Good(x) == [ok |-> TRUE, v |-> x]

\* strconv.ParseUint(s, 10, 0): digits only, no sign.  (The modelled inputs
\* are too short to leave 64 bits.)
ParseUint(s) ==
    IF s = <<>> \/ \E i \in 1..Len(s) : s[i] \notin Digits THEN Fail
    ELSE Good(DecVal(s))

\* strconv.ParseInt(s, 10, 0): an optional sign, then ParseUint.
ParseInt(s) ==
    IF s = <<>> THEN Fail
    ELSE LET neg  == s[1] = "-"
             body == IF s[1] \in {"+", "-"} THEN Tail(s) ELSE s
             u    == ParseUint(body)
         IN  IF ~u.ok THEN Fail ELSE Good(IF neg THEN 0 - u.v ELSE u.v)

\* strconv.ParseFloat(s, 0) on decimal literals: an optional sign, digits
\* with at most one point and at least one digit.  The value is kept in
\* tenths (the modelled inputs have at most one fractional digit and no
\* exponent, infinity or NaN).
ParseFloat(s) ==
    IF s = <<>> THEN Fail
    ELSE LET neg  == s[1] = "-"
             body == IF s[1] \in {"+", "-"} THEN Tail(s) ELSE s
             dots == {i \in 1..Len(body) : body[i] = "."}
             ip   == IF dots = {} THEN body
                     ELSE SubSeq(body, 1, (CHOOSE i \in dots : TRUE) - 1)
             fp   == IF dots = {} THEN <<>>
                     ELSE SubSeq(body, (CHOOSE i \in dots : TRUE) + 1, Len(body))
         IN  IF \/ Cardinality(dots) > 1
                \/ \E i \in 1..Len(body) : body[i] \notin Digits \cup {"."}
                \/ Len(ip) + Len(fp) = 0
                \/ Len(fp) > 1
             THEN Fail
             ELSE LET m == DecVal(ip) * 10 + DecVal(fp)
                  IN  Good(IF neg THEN 0 - m ELSE m)

\* The longest prefix of s made of characters of set.
RECURSIVE TakeWhile(_, _)
TakeWhile(s, set) ==
    IF s # <<>> /\ Head(s) \in set
    THEN <<Head(s)>> \o TakeWhile(Tail(s), set)
    ELSE <<>>

DropN(s, n) == SubSeq(s, n + 1, Len(s))

\* time's unit table, in nanoseconds (the units the modelled inputs can spell).
UnitNanos(u) ==
    CASE u = <<"n","s">> -> 1
      [] u = <<"u","s">> -> 1000
      [] u = <<"m","s">> -> 1000000
      [] u = <<"s">>     -> 1000000000
      [] OTHER           -> 0

\* The loop of time.ParseDuration: one or more <number><unit> groups.
RECURSIVE DurationLoop(_, _)
DurationLoop(s, acc) ==
    IF s = <<>> THEN Good(acc)
    ELSE LET ip == TakeWhile(s, Digits)
             r1 == DropN(s, Len(ip))
             dot == r1 # <<>> /\ r1[1] = "."
             fp == IF dot THEN TakeWhile(Tail(r1), Digits) ELSE <<>>
             r2 == IF dot THEN DropN(r1, 1 + Len(fp)) ELSE r1
             un == TakeWhile(r2, {r2[i] : i \in 1..Len(r2)} \ (Digits \cup {"."}))
             r3 == DropN(r2, Len(un))
         IN  IF \/ Len(ip) + Len(fp) = 0
                \/ un = <<>>
                \/ UnitNanos(un) = 0
             THEN Fail
             ELSE DurationLoop(r3, acc + DecVal(ip) * UnitNanos(un)
                                   + (DecVal(fp) * UnitNanos(un)) \div Pow10(Len(fp)))

\* time.ParseDuration, in nanoseconds.
ParseDuration(s) ==
    LET neg  == s # <<>> /\ s[1] = "-"
        body == IF s # <<>> /\ s[1] \in {"+", "-"} THEN Tail(s) ELSE s
    IN  IF body = <<>> THEN Fail
        ELSE IF body = <<"0">> THEN Good(0)
        ELSE LET d == DurationLoop(body, 0)
             IN  IF ~d.ok THEN Fail ELSE Good(IF neg THEN 0 - d.v ELSE d.v)

\* ------------------------------------------------------------------------
\* package reflect: the field types of the model and their values
\* ------------------------------------------------------------------------
\* A value is: a character sequence (String), a boolean (Bool), an integer
\* (Int*, Uint*; a time.Duration in nanoseconds; a Float* in tenths; a
\* time.Time as a day number, 0 the zero time), <<>> or <<pointee>> (Ptr),
\* a sequence of elements (Slice, <<>> the nil slice; Array), a record of
\* fields (Struct).

Ty(kind, qualified, elem, len, unm) ==
    [kind |-> kind, qualified |-> qualified, elem |-> elem, len |-> len, unm |-> unm]

\* reflect.Type of a type, by its Type.String(): its Kind, whether the name
\* holds a ".", its element type, its array length, and whether a pointer to
\* it implements encoding.TextUnmarshaler.
TypeOf(t) ==
    CASE t = "string"             -> Ty("String",  FALSE, "", 0, FALSE)
      [] t = "bool"               -> Ty("Bool",    FALSE, "", 0, FALSE)
      [] t = "int"                -> Ty("Int",     FALSE, "", 0, FALSE)
      [] t = "int8"               -> Ty("Int8",    FALSE, "", 0, FALSE)
      [] t = "int16"              -> Ty("Int16",   FALSE, "", 0, FALSE)
      [] t = "int64"              -> Ty("Int64",   FALSE, "", 0, FALSE)
      [] t = "uint"               -> Ty("Uint",    FALSE, "", 0, FALSE)
      [] t = "uint8"              -> Ty("Uint8",   FALSE, "", 0, FALSE)
      [] t = "float32"            -> Ty("Float32", FALSE, "", 0, FALSE)
      [] t = "float64"            -> Ty("Float64", FALSE, "", 0, FALSE)
      [] t = "time.Duration"      -> Ty("Int64",   TRUE,  "", 0, FALSE)
      [] t = "config.level"       -> Ty("Int",     TRUE,  "", 0, TRUE)
      [] t = "*int"               -> Ty("Ptr",     FALSE, "int", 0, FALSE)
      [] t = "*float64"           -> Ty("Ptr",     FALSE, "float64", 0, FALSE)
      [] t = "*string"            -> Ty("Ptr",     FALSE, "string", 0, FALSE)
      [] t = "*bool"              -> Ty("Ptr",     FALSE, "bool", 0, FALSE)
      [] t = "*config.childStruct" -> Ty("Ptr",    TRUE,  "config.childStruct", 0, FALSE)
      [] t = "[]int"              -> Ty("Slice",   FALSE, "int", 0, FALSE)
      [] t = "[]string"           -> Ty("Slice",   FALSE, "string", 0, FALSE)
      [] t = "[2]int"             -> Ty("Array",   FALSE, "int", 2, FALSE)
      [] t = "config.childStruct" -> Ty("Struct",  TRUE,  "", 0, FALSE)
      [] t = "config.point"       -> Ty("Struct",  TRUE,  "", 0, TRUE)
      [] t = "time.Time"          -> Ty("Struct",  TRUE,  "", 0, TRUE)
      [] t = "map[string]int"     -> Ty("Map",     FALSE, "int", 0, FALSE)
      [] t = "func()"             -> Ty("Func",    FALSE, "", 0, FALSE)
      [] t = "chan int"           -> Ty("Chan",    FALSE, "int", 0, FALSE)
      [] t = "complex128"         -> Ty("Complex128", FALSE, "", 0, FALSE)
      [] t = "interface {}"       -> Ty("Interface", FALSE, "", 0, FALSE)

IntKinds   == {"Int", "Int8", "Int16", "Int32", "Int64"}
UintKinds  == {"Uint", "Uint8", "Uint16", "Uint32", "Uint64"}
FloatKinds == {"Float32", "Float64"}

\* reflect.Zero: the zero value of a type.
ZeroOf(t) ==
    LET k == TypeOf(t).kind IN
    CASE k = "String" -> <<>>
      [] k = "Bool"   -> FALSE
      [] k \in IntKinds \cup UintKinds \cup FloatKinds -> 0
      [] k \in {"Ptr", "Slice", "Map", "Func", "Chan", "Interface"} -> <<>>
      [] k = "Array"  -> <<0, 0>>
      [] t = "config.childStruct" -> [Count |-> <<>>, Amount |-> <<>>]
      [] t = "config.point"       -> [X |-> 0]
      [] t = "time.Time"          -> 0
      [] OTHER -> 0

\* reflect.Value.SetInt: the value is truncated to the width of the kind.
\* (No modelled input leaves 32 bits, so wider kinds store it unchanged.)
SetInt(kind, i) ==
    CASE kind = "Int8"  -> ((i + 128) % 256) - 128
      [] kind = "Int16" -> ((i + 32768) % 65536) - 32768
      [] OTHER          -> i

\* reflect.Value.SetUint: likewise.
SetUint(kind, u) ==
    CASE kind = "Uint8"  -> u % 256
      [] kind = "Uint16" -> u % 65536
      [] OTHER           -> u

\* ------------------------------------------------------------------------
\* package encode
\* ------------------------------------------------------------------------

\* isZero without its numeric case: every kind is skipped on "" alone.
isZeroEmptyOnly(kind, s) == s = <<>>

\* isZero without its last line: only a numeric "0" is skipped.
isZeroNumericOnly(kind, s) ==
    kind \in IntKinds \cup UintKinds \cup FloatKinds /\ s = <<"0">>

\* isZero: whether s is the zero literal of a kind.
isZero(kind, s) ==
    IF kind \in IntKinds \cup UintKinds \cup FloatKinds
    THEN s = <<"0">>
    ELSE s = <<>>

implementsUnmarshaler(t) == TypeOf(t).unm

isAlias(t) == TypeOf(t).kind \notin {"Struct", "Ptr"} /\ TypeOf(t).qualified

\* The UnmarshalText of the two caller-defined types of the model, applied
\* to a new zero value: config.level reads a level name, config.point a
\* coordinate; both reject everything else.
UnmarshalText(t, s) ==
    CASE t = "config.level" /\ s = <<"a">>  -> Good(3)
      [] t = "config.point" /\ ParseInt(s).ok -> Good([X |-> ParseInt(s).v])
      [] OTHER -> Fail

\* The layout SetTime parses with: RFC3339 by default, a standard layout by
\* its name, any other tag as the layout itself.
DateLayout == <<"2","0","0","6","-","0","1","-","0","2">>
ResolveLayout(timeFmt) ==
    IF timeFmt = <<>> THEN <<"R","F","C","3","3","3","9">> ELSE timeFmt

\* time.Parse on the modelled inputs: only DateLit is long enough to be a
\* time, and it is one under the date layout alone.
TimeParse(layout, s) ==
    IF layout = DateLayout /\ s = DateLit THEN Good(14831) ELSE Fail

Ret(val, ok) == [val |-> val, ok |-> ok]

\* SetTime: the field is set only when the literal parses.
SetTime(v, s, timeFmt) ==
    LET p == TimeParse(ResolveLayout(timeFmt), s)
    IN  IF p.ok THEN Ret(p.v, TRUE) ELSE Ret(v, FALSE)

RECURSIVE SetField(_, _, _, _)

\* The custom text-unmarshal shortcut and the struct case's use of it:
\* UnmarshalText fills a new value, which replaces the field on success.
SetUnmarshaled(t, v, s) ==
    LET u == UnmarshalText(t, s)
    IN  IF u.ok THEN Ret(u.v, TRUE) ELSE Ret(v, FALSE)

\* case reflect.Bool
SetBool(v, s) ==
    LET l == ToLower(s) IN
    IF l = <<"t","r","u","e">> THEN Ret(TRUE, TRUE)
    ELSE IF l = <<"f","a","l","s","e">> \/ l = <<>> THEN Ret(FALSE, TRUE)
    ELSE Ret(v, FALSE)

\* case reflect.Int64 of a time.Duration: a duration string, else a count
\* of nanoseconds.
SetDuration(v, s) ==
    LET d == ParseDuration(s)
        i == ParseInt(s)
    IN  IF d.ok THEN Ret(d.v, TRUE)
        ELSE IF i.ok THEN Ret(i.v, TRUE)
        ELSE Ret(v, FALSE)

\* case reflect.Int, Int8, Int16, Int32 (and Int64 by fallthrough)
SetSigned(kind, v, s) ==
    LET i == ParseInt(s)
    IN  IF i.ok THEN Ret(SetInt(kind, i.v), TRUE) ELSE Ret(v, FALSE)

\* case reflect.Uint, Uint8, Uint16, Uint32, Uint64
SetUnsigned(kind, v, s) ==
    LET u == ParseUint(s)
    IN  IF u.ok THEN Ret(SetUint(kind, u.v), TRUE) ELSE Ret(v, FALSE)

\* case reflect.Float32, Float64
SetFloat(v, s) ==
    LET f == ParseFloat(s)
    IN  IF f.ok THEN Ret(f.v, TRUE) ELSE Ret(v, FALSE)

\* The pointer case without its error return: the pointer is pointed at the
\* new pointee whether or not the string parsed.
SetPtrAlways(t, v, s, timeFmt) ==
    LET elem == TypeOf(t).elem IN
    IF isZero(TypeOf(elem).kind, s) THEN Ret(v, TRUE)
    ELSE LET r == SetField(elem, ZeroOf(elem), s, timeFmt)
         IN  Ret(<<r.val>>, r.ok)

\* case reflect.Ptr: a new pointee is set from s and, on success, the
\* pointer is pointed at it.
SetPtr(t, v, s, timeFmt) ==
    LET elem == TypeOf(t).elem IN
    IF isZero(TypeOf(elem).kind, s) THEN Ret(v, TRUE)
    ELSE LET r == SetField(elem, ZeroOf(elem), s, timeFmt)
         IN  IF r.ok THEN Ret(<<r.val>>, TRUE) ELSE Ret(v, FALSE)

\* The slice case's loop: every token is trimmed and parsed into a new
\* element; acc is the slice built so far.
RECURSIVE SliceLoop(_, _, _, _)
SliceLoop(elem, vals, acc, timeFmt) ==
    IF vals = <<>> THEN Ret(acc, TRUE)
    ELSE LET tok == Trim(TrimSpace(Head(vals)), {"\"", "'"})
             r   == SetField(elem, ZeroOf(elem), tok, timeFmt)
         IN  IF ~r.ok THEN Ret(acc, FALSE)
             ELSE SliceLoop(elem, Tail(vals), Append(acc, r.val), timeFmt)

\* The slice case with the new elements appended to the field's own.
SetSliceAppended(t, v, s, timeFmt) ==
    LET vals == Split(Trim(s, {"[", "]"}), ",")
        r    == SliceLoop(TypeOf(t).elem, vals, <<>>, timeFmt)
    IN  IF r.ok THEN Ret(v \o r.val, TRUE) ELSE Ret(v, FALSE)

\* case reflect.Slice: the field is replaced once every token has parsed.
SetSlice(t, v, s, timeFmt) ==
    LET vals == Split(Trim(s, {"[", "]"}), ",")
        r    == SliceLoop(TypeOf(t).elem, vals, <<>>, timeFmt)
    IN  IF r.ok THEN Ret(r.val, TRUE) ELSE Ret(v, FALSE)

\* The array case's loop: token i is parsed into element i of the array
\* itself; arr is the array as written so far.
RECURSIVE ArrayLoop(_, _, _, _, _)
ArrayLoop(elem, vals, arr, i, timeFmt) ==
    IF i > Len(vals) THEN Ret(arr, TRUE)
    ELSE LET r == SetField(elem, arr[i], vals[i], timeFmt)
         IN  IF ~r.ok THEN Ret([arr EXCEPT ![i] = r.val], FALSE)
             ELSE ArrayLoop(elem, vals, [arr EXCEPT ![i] = r.val], i + 1, timeFmt)

\* case reflect.Array
SetArray(t, v, s, timeFmt) ==
    LET vals == Split(Trim(s, {"[", "]"}), ",")
    IN  IF TypeOf(t).len # Len(vals) THEN Ret(v, FALSE)
        ELSE ArrayLoop(TypeOf(t).elem, vals, v, 1, timeFmt)

\* case reflect.Struct: a time.Time is parsed; any other struct is replaced
\* by a new value of its type, which UnmarshalText has filled if the type
\* has one and which is the zero struct otherwise.
SetStruct(t, v, s, timeFmt) ==
    IF t = "time.Time" THEN SetTime(v, s, timeFmt)
    ELSE IF implementsUnmarshaler(t) THEN SetUnmarshaled(t, v, s)
    ELSE Ret(ZeroOf(t), TRUE)

\* SetField(value, s, sField): the field's value after the call and whether
\* the call returned nil.  t is the field's type, v its value before the
\* call, timeFmt the field's format tag.
SetField(t, v, s, timeFmt) ==
    LET kind == TypeOf(t).kind IN
    IF isZero(kind, s) THEN Ret(v, TRUE)
    ELSE IF isAlias(t) /\ implementsUnmarshaler(t) THEN SetUnmarshaled(t, v, s)
    ELSE CASE kind = "String" -> Ret(s, TRUE)
           [] kind = "Bool" -> SetBool(v, s)
           [] kind = "Int64" /\ t = "time.Duration" -> SetDuration(v, s)
           [] kind \in IntKinds /\ t # "time.Duration" -> SetSigned(kind, v, s)
           [] kind \in UintKinds -> SetUnsigned(kind, v, s)
           [] kind \in FloatKinds -> SetFloat(v, s)
           [] kind = "Ptr" -> SetPtr(t, v, s, timeFmt)
           [] kind = "Slice" -> SetSlice(t, v, s, timeFmt)
           [] kind = "Array" -> SetArray(t, v, s, timeFmt)
           [] kind = "Struct" -> SetStruct(t, v, s, timeFmt)
           [] OTHER -> Ret(v, FALSE)

\* ------------------------------------------------------------------------
\* Struct fields: reflect.StructField
\* ------------------------------------------------------------------------

\* A field of a struct type: its name, its type, and its config, env and
\* format tags (<<>> when the tag is absent).
Fld(name, type, cfg, env, fmt) ==
    [name |-> name, type |-> type, cfg |-> cfg, env |-> env, fmt |-> fmt]

IsUpper(c) == \E i \in 1..26 : UpperLetters[i] = c
IsLower(c) == \E i \in 1..26 : LowerLetters[i] = c

UpperChar(c) ==
    IF IsLower(c) THEN UpperLetters[CHOOSE i \in 1..26 : LowerLetters[i] = c] ELSE c

\* reflect.Value.CanSet of a field reached through a struct pointer: the
\* field is exported.
CanSet(fd) == IsUpper(fd.name[1])

\* strcase.ToScreamingSnake: upper case, with an underscore where the kind of
\* character (upper, lower, digit) changes.
RECURSIVE ScreamingFrom(_, _)
ScreamingFrom(s, i) ==
    IF i > Len(s) THEN <<>>
    ELSE LET v == s[i]
             u == UpperChar(v)
             hasNext == i + 1 <= Len(s)
             next == IF hasNext THEN s[i + 1] ELSE " "
             vIsCap == IsUpper(v)
             vIsLow == IsLower(v)
             vIsNum == v \in Digits
             nextIsCap == IsUpper(next)
             nextIsLow == IsLower(next)
             nextIsNum == next \in Digits
             change == \/ vIsCap /\ (nextIsLow \/ nextIsNum)
                       \/ vIsLow /\ (nextIsCap \/ nextIsNum)
                       \/ vIsNum /\ (nextIsCap \/ nextIsLow)
             before == IF vIsCap /\ nextIsLow /\ i > 1 /\ IsUpper(s[IF i > 1 THEN i - 1 ELSE 1])
                       THEN <<"_">> ELSE <<>>
             after  == IF vIsLow \/ vIsNum \/ nextIsNum THEN <<"_">> ELSE <<>>
         IN  IF hasNext /\ change
             THEN before \o <<u>> \o after \o ScreamingFrom(s, i + 1)
             ELSE (IF v \in {" ", "_", "-", "."} THEN <<"_">> ELSE <<u>>)
                  \o ScreamingFrom(s, i + 1)

ToScreamingSnake(s) == ScreamingFrom(TrimSpace(s), 1)

\* ------------------------------------------------------------------------
\* package env
\* ------------------------------------------------------------------------

OmitPrefix == <<"o","m","i","t","p","r","e","f","i","x">>
Ignore == <<"i","g","n","o","r","e">>

\* Skipped without its config tag check.
SkippedButIgnoreTag(fd) == ~CanSet(fd) \/ fd.env = <<"-">>

\* The fields populate passes over before it looks at the name: unexported
\* ones, those tagged config:"ignore" and those tagged env:"-".
Skipped(fd) == ~CanSet(fd) \/ fd.cfg = Ignore \/ fd.env = <<"-">>

\* The name segment of a field: nothing under omitprefix, the env tag when
\* there is one, else the field name in screaming snake case.
Segment(fd) ==
    IF fd.env = OmitPrefix THEN <<>>
    ELSE IF fd.env = <<>> THEN ToScreamingSnake(fd.name)
    ELSE fd.env

\* The environment variable of a field under a prefix.
EnvName(prefix, fd) ==
    LET name == Segment(fd) IN
    IF prefix = <<>> THEN name
    ELSE IF name = <<>> THEN prefix
    ELSE prefix \o <<"_">> \o name

\* The kinds populate never hands to SetField.
IgnoredKinds == {"Func", "Chan", "Complex64", "Complex128", "Interface", "Map"}

\* The result of a walk: the record, the error ("" for nil) and the fields
\* SetField was called on, in order.
Walk(rec, err, calls) == [rec |-> rec, err |-> err, calls |-> calls]

\* The loop of populate from field i on.  getenv is the environment, a
\* function from names to values; a name outside it is unset.  populateSet
\* is the end of the loop body, r being what SetField returned.
RECURSIVE populateFrom(_, _, _, _, _, _)
RECURSIVE populateSet(_, _, _, _, _, _, _)
populateSet(prefix, fields, rec, getenv, i, calls, r) ==
    IF ~r.ok
    THEN Walk([rec EXCEPT ![i] = r.val], "cannot be set", Append(calls, i))
    ELSE populateFrom(prefix, fields, [rec EXCEPT ![i] = r.val],
                      getenv, i + 1, Append(calls, i))

populateFrom(prefix, fields, rec, getenv, i, calls) ==
    IF i > Len(fields) THEN Walk(rec, "", calls)
    ELSE LET fd     == fields[i]
             name   == EnvName(prefix, fd)
             envVal == IF name \in DOMAIN getenv THEN getenv[name] ELSE <<>>
         IN  IF Skipped(fd)
             THEN populateFrom(prefix, fields, rec, getenv, i + 1, calls)
             ELSE IF TypeOf(fd.type).kind \in IgnoredKinds
             THEN populateFrom(prefix, fields, rec, getenv, i + 1, calls)
             ELSE IF fd.env = OmitPrefix
             THEN Walk(rec, "omitprefix", calls)
             ELSE IF envVal = <<>>
             THEN populateFrom(prefix, fields, rec, getenv, i + 1, calls)
             ELSE populateSet(prefix, fields, rec, getenv, i, calls,
                              SetField(fd.type, rec[i], envVal, fd.fmt))

\* populate(prefix, v).  target says what v is: "ptr" a non-nil pointer to
\* a struct, "nil" a nil pointer or nil interface, "value" anything else.
populate(prefix, target, fields, rec, getenv) ==
    IF target = "nil" THEN Walk(rec, "must be a non-nil pointer", <<>>)
    ELSE IF target = "value" THEN Walk(rec, "must be a non-nil pointer", <<>>)
    ELSE populateFrom(prefix, fields, rec, getenv, 1, <<>>)

\* Decoder.Unmarshal
Unmarshal(target, fields, rec, getenv) == populate(<<>>, target, fields, rec, getenv)

\* ------------------------------------------------------------------------
\* package config: Options
\* ------------------------------------------------------------------------

OptEnv == 1
OptToml == 2
OptYaml == 4
OptJson == 8
OptFlag == 16
OptGenConf == 32
OptShow == 64

\* a & b, a | b and a &^ b on Options.
RECURSIVE BitAnd(_, _)
BitAnd(a, b) ==
    IF a = 0 \/ b = 0 THEN 0
    ELSE (a % 2) * (b % 2) + 2 * BitAnd(a \div 2, b \div 2)

RECURSIVE BitOr(_, _)
BitOr(a, b) ==
    IF a = 0 THEN b
    ELSE IF b = 0 THEN a
    ELSE (IF a % 2 = 1 \/ b % 2 = 1 THEN 1 ELSE 0) + 2 * BitOr(a \div 2, b \div 2)

\* a ^ b in the place of a &^ b.
RECURSIVE BitXor(_, _)
BitXor(a, b) ==
    IF a = 0 THEN b
    ELSE IF b = 0 THEN a
    ELSE (IF (a % 2) # (b % 2) THEN 1 ELSE 0) + 2 * BitXor(a \div 2, b \div 2)

RECURSIVE BitAndNot(_, _)
BitAndNot(a, b) ==
    IF a = 0 THEN 0
    ELSE (a % 2) * (1 - (b % 2)) + 2 * BitAndNot(a \div 2, b \div 2)

OptFiles == BitOr(OptToml, BitOr(OptYaml, OptJson))
defaultOpts == BitOr(OptEnv, BitOr(OptFiles, BitOr(OptFlag, BitOr(OptShow, OptGenConf))))

\* Options.isEnabled
isEnabled(o, v) == BitAnd(o, v) = v

\* ------------------------------------------------------------------------
\* package file
\* ------------------------------------------------------------------------

\* filepath.Ext: the suffix from the last dot of the last element of the
\* path on, empty when there is none.
RECURSIVE ExtFrom(_, _)
ExtFrom(f, i) ==
    IF i < 1 THEN <<>>
    ELSE IF f[i] = "/" THEN <<>>
    ELSE IF f[i] = "." THEN SubSeq(f, i, Len(f))
    ELSE ExtFrom(f, i - 1)

Ext(f) == ExtFrom(f, Len(f))

\* A file: the format its text is written in and the fields that text
\* gives a value to (field number -> value).
FileOf(format, doc) == [format |-> format, doc |-> doc]

\* The result of a stage on the record: the record and the error ("" nil).
Loaded(rec, err) == [rec |-> rec, err |-> err]

\* toml.DecodeFile, json.Unmarshal and yaml.Unmarshal of the file at f with
\* the decoder of one format: the file has to be there and its text has to
\* be of that format; its fields are written into the record, the others
\* are left.
Decode(format, fs, f, rec) ==
    IF f \notin DOMAIN fs THEN Loaded(rec, "no such file")
    ELSE IF fs[f].format # format THEN Loaded(rec, "decode")
    ELSE Loaded([i \in DOMAIN rec |->
                    IF i \in DOMAIN fs[f].doc THEN fs[f].doc[i] ELSE rec[i]], "")

\* file.Load(f, i)
FileLoad(fs, f, rec) ==
    LET ext == Trim(Ext(f), {"."}) IN
    IF ext = <<"t","o","m","l">> THEN Decode("toml", fs, f, rec)
    ELSE IF ext = <<"j","s","o","n">> THEN Decode("json", fs, f, rec)
    ELSE IF ext = <<"y","a","m","l">> \/ ext = <<"y","m","l">>
    THEN Decode("yaml", fs, f, rec)
    ELSE Loaded(rec, "unknown file type")

\* ------------------------------------------------------------------------
\* package flag (internal/encode/flag): the command line
\* ------------------------------------------------------------------------

\* The command line is a function from the names of the flags given to
\* their values.
FlagShow == <<"s","h","o","w">>
FlagC == <<"c">>
FlagConfig == <<"c","o","n","f","i","g">>
FlagG == <<"g">>
FlagGen == <<"g","e","n">>

\* The flag of a field: its name in lower case.
FlagName(fd) == ToLower(fd.name)

\* flg.New(c): the flags of the fields of the record; none for New(nil).
FlagNew(withFields, fields) ==
    IF withFields THEN { FlagName(fields[i]) : i \in 1..Len(fields) } ELSE {}

\* Flags.Parse: a flag that is given and not defined is an error.
FlagParse(defined, args) ==
    IF DOMAIN args \subseteq defined THEN "" ELSE "flag parse"

\* The variable behind flag.String(name, "", ...) (and StringVar of its
\* long name) after Parse.
FlagString(args, short, long) ==
    IF long \in DOMAIN args THEN args[long]
    ELSE IF short \in DOMAIN args THEN args[short]
    ELSE <<>>

\* The variable behind flag.Bool(name, false, ...) after Parse.
FlagBool(args, name) == name \in DOMAIN args /\ args[name] = <<"t","r","u","e">>

\* Flags.Unmarshal from field i on: a field whose flag is given and not
\* empty is handed to SetField; FlagSet goes on with what it returned.
RECURSIVE FlagUnmarshalFrom(_, _, _, _)
RECURSIVE FlagSet(_, _, _, _, _)
FlagSet(fields, rec, args, i, r) ==
    IF ~r.ok THEN Loaded([rec EXCEPT ![i] = r.val], "flag cannot be set")
    ELSE FlagUnmarshalFrom(fields, [rec EXCEPT ![i] = r.val], args, i + 1)

FlagUnmarshalFrom(fields, rec, args, i) ==
    IF i > Len(fields) THEN Loaded(rec, "")
    ELSE LET name == FlagName(fields[i])
             val  == IF name \in DOMAIN args THEN args[name] ELSE <<>>
         IN  IF val = <<>> THEN FlagUnmarshalFrom(fields, rec, args, i + 1)
             ELSE FlagSet(fields, rec, args, i,
                          SetField(fields[i].type, rec[i], val, fields[i].fmt))

FlagUnmarshal(fields, rec, args) == FlagUnmarshalFrom(fields, rec, args, 1)

\* ------------------------------------------------------------------------
\* package config: Load
\* ------------------------------------------------------------------------

\* A pointer handle of goConfig is <<>> when nil and <<v>> when it points
\* at v.  The handles Load registers for a set of options.
ShowConfigHandle(o, args) ==
    IF isEnabled(o, OptShow) THEN <<FlagBool(args, FlagShow)>> ELSE <<>>

GenConfigHandle(o, args) ==
    IF isEnabled(o, OptFiles) /\ isEnabled(o, OptGenConf)
    THEN <<FlagString(args, FlagG, FlagGen)>> ELSE <<>>

ConfigPathHandle(o, args) ==
    IF isEnabled(o, OptFiles) THEN <<FlagString(args, FlagC, FlagConfig)>> ELSE <<>>

\* The flags defined when Parse is called.
DefinedFlags(o, fields) ==
    FlagNew(isEnabled(o, OptFlag), fields)
    \cup (IF isEnabled(o, OptShow) THEN {FlagShow} ELSE {})
    \cup (IF isEnabled(o, OptFiles) THEN {FlagC, FlagConfig} ELSE {})
    \cup (IF isEnabled(o, OptFiles) /\ isEnabled(o, OptGenConf)
          THEN {FlagG, FlagGen} ELSE {})

\* Where Load stands: the record, the stages run so far and the result
\* ("" while Load goes on or returns nil, else the error, "exit" for
\* os.Exit and "panic" for a nil pointer dereference).
Stage(rec, ran, err) == [rec |-> rec, ran |-> ran, err |-> err]

\* After the stage named: w is what its adapter returned.
Staged(st, name, w) == Stage(w.rec, Append(st.ran, name), w.err)

\* if g.options.isEnabled(OptEnv) { env.New().Unmarshal(g.config) } with
\* the error not returned.
EnvStageErrorDropped(o, fields, getenv, st) ==
    IF st.err # "" THEN st
    ELSE IF ~isEnabled(o, OptEnv) THEN st
    ELSE Staged(st, "env", Loaded(Unmarshal("ptr", fields, st.rec, getenv).rec, ""))

\* if g.options.isEnabled(OptEnv) { env.New().Unmarshal(g.config) }
EnvStage(o, fields, getenv, st) ==
    IF st.err # "" THEN st
    ELSE IF ~isEnabled(o, OptEnv) THEN st
    ELSE Staged(st, "env", Unmarshal("ptr", fields, st.rec, getenv))

\* if g.options.isEnabled(OptFiles) && *g.configPath != "" { file.Load }
FileStage(o, fs, configPath, st) ==
    IF st.err # "" THEN st
    ELSE IF ~isEnabled(o, OptFiles) THEN st
    ELSE IF configPath = <<>> THEN Stage(st.rec, st.ran, "panic")
    ELSE IF configPath[1] = <<>> THEN st
    ELSE Staged(st, "file", FileLoad(fs, configPath[1], st.rec))

\* if g.options.isEnabled(OptFlag) { g.flags.Unmarshal(g.config) }
FlagStage(o, fields, args, st) ==
    IF st.err # "" THEN st
    ELSE IF ~isEnabled(o, OptFlag) THEN st
    ELSE Staged(st, "flag", FlagUnmarshal(fields, st.rec, args))

\* The three stages with the file loaded last.
LoadStagesFileLast(o, fields, getenv, fs, args, configPath, st) ==
    FileStage(o, fs, configPath,
        FlagStage(o, fields, args,
            EnvStage(o, fields, getenv, st)))

\* load in lowest priority order: env -> file -> flag
LoadStages(o, fields, getenv, fs, args, configPath, st) ==
    FlagStage(o, fields, args,
        FileStage(o, fs, configPath,
            EnvStage(o, fields, getenv, st)))

\* The -g and -show commands after the stages.
SideCommands(o, genConfig, showConfig, st) ==
    IF st.err # "" THEN st
    ELSE IF isEnabled(o, OptGenConf) /\ genConfig = <<>>
    THEN Stage(st.rec, st.ran, "panic")
    ELSE IF isEnabled(o, OptGenConf) /\ genConfig[1] # <<>>
    THEN Stage(st.rec, Append(st.ran, "gen"), "exit")
    ELSE IF isEnabled(o, OptShow) /\ showConfig = <<>>
    THEN Stage(st.rec, st.ran, "panic")
    ELSE IF isEnabled(o, OptShow) /\ showConfig[1]
    THEN Stage(st.rec, Append(st.ran, "show"), "exit")
    ELSE st

\* if val, ok := g.config.(Validator); ok { return val.Validate() }.
\* validate is "none" for a record that is no Validator, else what its
\* Validate returns ("" for nil).
Validated(validate, st) ==
    IF st.err # "" THEN st
    ELSE IF validate = "none" THEN st
    ELSE Stage(st.rec, Append(st.ran, "validate"), validate)

\* Load once the command line is parsed (parsed is the error of Parse).
LoadParsed(o, fields, rec, getenv, fs, args, validate, parsed) ==
    IF parsed # "" THEN Stage(rec, <<>>, parsed)
    ELSE Validated(validate,
            SideCommands(o, GenConfigHandle(o, args), ShowConfigHandle(o, args),
                LoadStages(o, fields, getenv, fs, args, ConfigPathHandle(o, args),
                           Stage(rec, <<>>, ""))))

\* goConfig.Load
Load(o, fields, rec, getenv, fs, args, validate) ==
    LoadParsed(o, fields, rec, getenv, fs, args, validate,
               FlagParse(DefinedFlags(o, fields), args))

\* ------------------------------------------------------------------------
\* State
\* ------------------------------------------------------------------------

VARIABLES
    sfType,     \* SetField: the type of the destination field
    sfTag,      \* SetField: the field's format tag
    sfVal,      \* SetField: the field's value
    sfArg,      \* SetField: the string of the last call
    sfPrior,    \* SetField: the field's value before the last call
    sfRet       \* SetField: "none" before any call, then "nil" or "error"

sfVars == <<sfType, sfTag, sfVal, sfArg, sfPrior, sfRet>>

VARIABLES
    envTarget,  \* env: what Unmarshal is given ("ptr", "nil", "value")
    envFields,  \* env: the fields of the struct type
    envRec,     \* env: the record, one value per field
    environ,    \* env: the process environment, name -> value
    envPrior,   \* env: the record before Unmarshal
    envCalls,   \* env: the fields SetField was called on by Unmarshal
    envRet      \* env: "none" before Unmarshal, then "" (nil) or the error

envVars == <<envTarget, envFields, envRec, environ, envPrior, envCalls, envRet>>

VARIABLES
    options,    \* goConfig.options
    config,     \* the record goConfig.config points at, one value per field
    osArgs,     \* the command line, flag name -> value
    validator,  \* "none", or what the record's Validate returns ("" nil)
    showConfig, \* goConfig.showConfig: <<>> nil, else <<bool>>
    genConfig,  \* goConfig.genConfig: <<>> nil, else <<string>>
    configPath, \* goConfig.configPath: <<>> nil, else <<string>>
    ran,        \* the stages Load ran, in order
    loadRet     \* "none" before Load, then "nil", the error, "exit" or "panic"

loadVars == <<options, config, osArgs, validator, showConfig, genConfig,
              configPath, ran, loadRet>>

VARIABLE
    optLog      \* the calls of Disable and SetOptions made, when they are logged

vars == <<sfVars, envVars, loadVars, optLog>>

\* ------------------------------------------------------------------------
\* SetField applied to one field, again and again
\* ------------------------------------------------------------------------

\* The field types SetField is given.
SetFieldTypes ==
    { "string", "bool", "int", "int8", "int16", "int64", "uint", "uint8",
      "float32", "float64", "time.Duration", "config.level",
      "*int", "*float64", "*string", "*bool", "*config.childStruct",
      "[]int", "[]string", "[2]int",
      "config.childStruct", "config.point", "time.Time", "map[string]int" }

\* The values a field holds before the first call: the zero value and one
\* that is not.
Samples(t) ==
    LET k == TypeOf(t).kind IN
    CASE k = "String" -> {<<>>, <<"a">>}
      [] k = "Bool"   -> {FALSE, TRUE}
      [] t = "time.Duration" -> {0, 1000000000}
      [] k \in IntKinds \cup UintKinds \cup FloatKinds -> {0, 5}
      [] t = "*string" -> {<<>>, << <<"a">> >>}
      [] t = "*bool"   -> {<<>>, <<TRUE>>}
      [] t = "*config.childStruct" -> {<<>>, <<[Count |-> <<5>>, Amount |-> <<>>]>>}
      [] k = "Ptr"    -> {<<>>, <<5>>}
      [] t = "[]string" -> {<<>>, << <<"a">> >>}
      [] k = "Slice"  -> {<<>>, <<7, 8>>}
      [] k = "Array"  -> {<<0, 0>>, <<7, 8>>}
      [] t = "config.childStruct" -> {ZeroOf(t), [Count |-> <<5>>, Amount |-> <<>>]}
      [] t = "config.point" -> {ZeroOf(t), [X |-> 4]}
      [] t = "time.Time" -> {0, 9}
      [] OTHER -> {<<>>, <<1>>}

Tags(t) == IF t = "time.Time" THEN {<<>>, DateLayout} ELSE {<<>>}

\* The other components at rest.
IdleSetField ==
    /\ sfType = "int" /\ sfTag = <<>> /\ sfVal = 0
    /\ sfArg = <<>> /\ sfPrior = 0 /\ sfRet = "none"

IdleDecoder ==
    /\ envTarget = "ptr" /\ envFields = <<>> /\ envRec = <<>>
    /\ envPrior = <<>> /\ envCalls = <<>> /\ envRet = "none"

IdleEnv == IdleDecoder /\ environ = <<>>

IdleLoad ==
    /\ options = defaultOpts /\ config = <<>> /\ osArgs = <<>>
    /\ validator = "none" /\ showConfig = <<>> /\ genConfig = <<>>
    /\ configPath = <<>> /\ ran = <<>> /\ loadRet = "none"
    /\ optLog = <<>>

InitSetField ==
    /\ IdleEnv
    /\ IdleLoad
    /\ sfType \in SetFieldTypes
    /\ sfTag \in Tags(sfType)
    /\ sfVal \in Samples(sfType)
    /\ sfArg = <<>>
    /\ sfPrior = sfVal
    /\ sfRet = "none"

\* encode.SetField(field, s, sField)
CallSetField(s) ==
    /\ \E r \in {SetField(sfType, sfVal, s, sfTag)} :
        /\ sfVal' = r.val
        /\ sfRet' = IF r.ok THEN "nil" ELSE "error"
    /\ sfArg' = s
    /\ sfPrior' = sfVal
    /\ UNCHANGED <<sfType, sfTag, envVars, loadVars, optLog>>

NextSetField == \E s \in Inputs : CallSetField(s)

SpecSetField == InitSetField /\ [][NextSetField]_vars

\* ------------------------------------------------------------------------
\* env.Decoder.Unmarshal applied to one struct under one environment
\* ------------------------------------------------------------------------

\* The fields of the struct types of the model (childStruct is the test's).
StructFields(t) ==
    IF t = "config.childStruct"
    THEN << Fld(<<"C","o","u","n","t">>, "*int", <<>>, <<>>, <<>>),
            Fld(<<"A","m","o","u","n","t">>, "*float64", <<>>, <<>>, <<>>) >>
    ELSE <<>>

\* The fields the structs given to Unmarshal are made of: plain, unexported,
\* ignored, renamed, nested, prefix-omitting and unsupported ones.
FieldPool ==
    { Fld(<<"V","a","l","u","e">>, "int", <<>>, <<>>, <<>>),
      Fld(<<"F","l","o","a","t","6","4">>, "float64", <<>>, <<>>, <<>>),
      Fld(<<"s","e","c">>, "int", <<>>, <<>>, <<>>),
      Fld(<<"S","k","i","p">>, "int", Ignore, <<>>, <<>>),
      Fld(<<"D","a","s","h">>, "int", <<>>, <<"-">>, <<>>),
      Fld(<<"P","o","r","t">>, "int", <<>>, <<"P">>, <<>>),
      Fld(<<"C","h","i","l","d">>, "config.childStruct", <<>>, <<>>, <<>>),
      Fld(<<"P","t","r">>, "*config.childStruct", <<>>, <<>>, <<>>),
      Fld(<<"O","m","i","t">>, "config.childStruct", <<>>, OmitPrefix, <<>>),
      Fld(<<"B","a","d">>, "int", <<>>, OmitPrefix, <<>>),
      Fld(<<"M">>, "map[string]int", <<>>, <<>>, <<>>) }

\* The struct types: up to MaxFields different fields of the pool.
Shapes ==
    UNION { { f \in [1..k -> FieldPool] : \A a, b \in 1..k : a # b => f[a] # f[b] }
            : k \in 1..MaxFields }

\* A field's value before Unmarshal: not the zero value.
DefaultOf(t) == CHOOSE v \in Samples(t) : v # ZeroOf(t)

\* Whether a type is a struct, or a pointer to one, that is walked field by
\* field (it has fields of its own).
IsNested(t) ==
    \/ StructFields(t) # <<>>
    \/ TypeOf(t).kind = "Ptr" /\ StructFields(TypeOf(t).elem) # <<>>

NestedFields(t) ==
    IF TypeOf(t).kind = "Ptr" THEN StructFields(TypeOf(t).elem) ELSE StructFields(t)

\* The environment variables that concern a struct: one per field and one
\* for the first field of a nested struct.
NamesOf(fields) ==
    ( { EnvName(<<>>, fields[i]) : i \in 1..Len(fields) }
      \cup { EnvName(EnvName(<<>>, fields[i]), NestedFields(fields[i].type)[1])
             : i \in {j \in 1..Len(fields) : IsNested(fields[j].type)} } ) \ {<<>>}

\* The values of an environment variable: unset or empty, a number, a word.
EnvValues == {<<>>, <<"1">>, <<"a">>}

InitEnv ==
    /\ IdleSetField
    /\ IdleLoad
    /\ envFields \in Shapes
    /\ envTarget \in (IF Len(envFields) = 1 THEN {"ptr", "nil", "value"} ELSE {"ptr"})
    /\ envRec = [i \in 1..Len(envFields) |-> DefaultOf(envFields[i].type)]
    /\ environ \in [NamesOf(envFields) -> EnvValues]
    /\ envPrior = envRec
    /\ envCalls = <<>>
    /\ envRet = "none"

\* env.New().Unmarshal(v)
UnmarshalEnv ==
    /\ envRet = "none"
    /\ \E w \in {Unmarshal(envTarget, envFields, envRec, environ)} :
        /\ envRec' = w.rec
        /\ envCalls' = w.calls
        /\ envRet' = IF w.err = "" THEN "nil" ELSE w.err
    /\ envPrior' = envRec
    /\ UNCHANGED <<envTarget, envFields, environ, sfVars, loadVars, optLog>>

NextEnv == UnmarshalEnv

SpecEnv == InitEnv /\ [][NextEnv]_vars

\* ------------------------------------------------------------------------
\* config.New(&c), Disable and SetOptions, then Load
\* ------------------------------------------------------------------------

\* The record: the Name and Value of the test's struct, with its defaults.
LoadFields ==
    << Fld(<<"N","a","m","e">>, "string", <<>>, <<>>, <<>>),
       Fld(<<"V","a","l","u","e">>, "int", <<>>, <<>>, <<>>) >>

LoadDefaults == << <<>>, 1 >>

EnvNAME == <<"N","A","M","E">>
EnvVALUE == <<"V","A","L","U","E">>

\* The environments Load is run under.
LoadEnvs ==
    { <<>>,
      EnvVALUE :> <<"a">>,
      EnvVALUE :> <<"0">>,
      (EnvNAME :> <<"e">>) @@ (EnvVALUE :> <<"8">>) }

PathToml == <<"c",".","t","o","m","l">>
PathYaml == <<"c",".","y","a","m","l">>
PathTxt == <<"c",".","t","x","t">>

\* The files there are: one that gives Value 10, one that gives Value 0,
\* one of no known format.
FileSystem ==
    (PathToml :> FileOf("toml", 2 :> 10)) @@
    (PathYaml :> FileOf("yaml", 2 :> 0)) @@
    (PathTxt  :> FileOf("none", <<>>))

\* The command lines: at most one of each of -c and -value, and at most
\* one of -g and -show.
ArgsOf(c, v, side) ==
    [ n \in (IF c = <<>> THEN {} ELSE {FlagC})
            \cup (IF v = <<>> THEN {} ELSE {FlagName(LoadFields[2])})
            \cup (IF side = <<>> THEN {} ELSE {side})
      |-> IF n = FlagC THEN c
          ELSE IF n = FlagG THEN <<"t","o","m","l">>
          ELSE IF n = FlagShow THEN <<"t","r","u","e">>
          ELSE v ]

LoadArgs ==
    { ArgsOf(c, v, side) :
        c \in {<<>>, PathToml, PathYaml, PathTxt},
        v \in {<<>>, <<"9","9">>, <<"a">>},
        side \in {<<>>, FlagG, FlagShow} }

Validators == {"none", "", "invalid"}

\* What Disable and SetOptions are called with.
DisableArgs == {OptEnv, OptToml, OptYaml, OptJson, OptFlag, OptGenConf, OptShow, OptFiles}
SetOptionsArgs == {0, BitOr(OptFiles, BitOr(OptGenConf, OptShow))}

Init ==
    /\ IdleSetField
    /\ IdleDecoder
    /\ options = defaultOpts
    /\ config = LoadDefaults
    /\ environ \in LoadEnvs
    /\ osArgs \in LoadArgs
    /\ validator \in Validators
    /\ showConfig = <<>>
    /\ genConfig = <<>>
    /\ configPath = <<>>
    /\ ran = <<>>
    /\ loadRet = "none"
    /\ optLog = <<>>

\* goConfig.Disable(opts)
Disable(opts) ==
    /\ loadRet = "none"
    /\ options' = BitAndNot(options, opts)
    /\ UNCHANGED <<config, osArgs, validator, showConfig, genConfig, configPath,
                   ran, loadRet, sfVars, envVars>>

\* goConfig.SetOptions(opts)
SetOptions(opts) ==
    /\ loadRet = "none"
    /\ options' = opts
    /\ UNCHANGED <<config, osArgs, validator, showConfig, genConfig, configPath,
                   ran, loadRet, sfVars, envVars>>

\* goConfig.Load()
CallLoad ==
    /\ loadRet = "none"
    /\ \E st \in {Load(options, LoadFields, config, environ, FileSystem, osArgs, validator)} :
        /\ config' = st.rec
        /\ ran' = st.ran
        /\ loadRet' = IF st.err = "" THEN "nil" ELSE st.err
    /\ showConfig' = ShowConfigHandle(options, osArgs)
    /\ genConfig' = GenConfigHandle(options, osArgs)
    /\ configPath' = ConfigPathHandle(options, osArgs)
    /\ UNCHANGED <<options, osArgs, validator, sfVars, envVars, optLog>>

Next ==
    \/ \E opts \in DisableArgs : Disable(opts) /\ UNCHANGED optLog
    \/ \E opts \in SetOptionsArgs : SetOptions(opts) /\ UNCHANGED optLog
    \/ CallLoad

Spec == Init /\ [][Next]_vars

\* ------------------------------------------------------------------------
\* config.New(&c) followed by calls of Disable and SetOptions, each logged
\* ------------------------------------------------------------------------

\* A logged call: what was called with what, and g.options before and
\* after it.
Called(call, arg, before, after) ==
    [call |-> call, arg |-> arg, before |-> before, after |-> after]

InitOptions ==
    /\ IdleSetField
    /\ IdleEnv
    /\ IdleLoad

\* g.Disable(opts), logged
DisableLogged(opts) ==
    /\ Len(optLog) < MaxCalls
    /\ Disable(opts)
    /\ optLog' = Append(optLog, Called("Disable", opts, options, options'))

\* g.SetOptions(opts), logged
SetOptionsLogged(opts) ==
    /\ Len(optLog) < MaxCalls
    /\ SetOptions(opts)
    /\ optLog' = Append(optLog, Called("SetOptions", opts, options, options'))

NextOptions ==
    \/ \E opts \in DisableArgs : DisableLogged(opts)
    \/ \E opts \in SetOptionsArgs : SetOptionsLogged(opts)

SpecOptions == InitOptions /\ [][NextOptions]_vars

\* ------------------------------------------------------------------------
\* Properties of SetField (checked under SpecSetField)
\* ------------------------------------------------------------------------

NumericKinds ==
    { "Int", "Int8", "Int16", "Int32", "Int64",
      "Uint", "Uint8", "Uint16", "Uint32", "Uint64", "Float32", "Float64" }

sfKind == TypeOf(sfType).kind
sfCalled == sfRet # "none"
sfUnchanged == sfVal = sfPrior

\* C2 (as claimed): "0" on a numeric kind, and "" on ANY kind, numeric kinds
\* included, makes SetField return nil and leave the field as it was.
C2_EmptySkippedOnEveryKind ==
    sfCalled /\ ((sfKind \in NumericKinds /\ sfArg = <<"0">>) \/ sfArg = <<>>)
        => sfRet = "nil" /\ sfUnchanged

\* C2 (amended): "0" on a numeric kind and "" on a kind that is not numeric
\* make SetField return nil and leave the field as it was; "" on a numeric
\* kind is not skipped: it is parsed, the call returns an error, and the
\* field is left as it was.
C2_ZeroLiteralSkipped ==
    sfCalled =>
        /\ (sfKind \in NumericKinds /\ sfArg = <<"0">>) => sfRet = "nil" /\ sfUnchanged
        /\ (sfKind \notin NumericKinds /\ sfArg = <<>>) => sfRet = "nil" /\ sfUnchanged
        /\ (sfKind \in NumericKinds /\ sfArg = <<>>) => sfRet = "error" /\ sfUnchanged

\* C2 (witness): an int8 field holding 5 was given "0" and still holds 5.
C2_Witness ==
    /\ sfType = "int8" /\ sfArg = <<"0">> /\ sfRet = "nil"
    /\ sfPrior = 5 /\ sfVal = 5

sfPointee == SetField(TypeOf(sfType).elem, ZeroOf(TypeOf(sfType).elem), sfArg, sfTag)

sfPointeeNumeric == TypeOf(TypeOf(sfType).elem).kind \in NumericKinds

sfAllocated ==
    IF sfPointee.ok THEN sfRet = "nil" /\ sfVal = <<sfPointee.val>>
    ELSE sfRet = "error" /\ sfUnchanged

\* C10 (as claimed): on a pointer field, the zero literal of the pointee's
\* kind ("0" numeric, "" otherwise) returns nil and leaves the pointer; any
\* other string sets a new pointee and assigns it when that succeeds, and
\* returns the error and leaves the pointer when it fails.
C10_OnlyPointeeZeroSkipped ==
    (sfCalled /\ sfKind = "Ptr") =>
        IF (sfPointeeNumeric /\ sfArg = <<"0">>) \/ (~sfPointeeNumeric /\ sfArg = <<>>)
        THEN sfRet = "nil" /\ sfUnchanged
        ELSE sfAllocated

\* C10 (amended): on a pointer field, "" (whatever the pointee) and the zero
\* literal of the pointee's kind return nil and leave the pointer as it
\* was; any other string sets a new zero pointee by the same algorithm, the
\* pointer is assigned to it when that succeeds, and the error is returned
\* and the pointer left as it was when it fails.
C10_PointerSet ==
    (sfCalled /\ sfKind = "Ptr") =>
        IF sfArg = <<>> \/ (sfPointeeNumeric /\ sfArg = <<"0">>)
        THEN sfRet = "nil" /\ sfUnchanged
        ELSE sfAllocated

\* C10 (witness): a nil *int was given "1" and points at 1.
C10_Witness ==
    /\ sfType = "*int" /\ sfPrior = <<>> /\ sfArg = <<"1">>
    /\ sfRet = "nil" /\ sfVal = <<1>>

\* The tokens of a list string, each without the blanks and quotes around
\* it, given the string without its brackets.
sfTokens(body) ==
    LET vals == Split(body, ",")
    IN  [i \in 1..Len(vals) |-> Trim(TrimSpace(vals[i]), {"\"", "'"})]

\* What a slice field holds after a call whose string, without its brackets,
\* is body: every token parsed into a new element, in order, when all of
\* them parse, and the error with the slice as it was when one does not.
sfSliceIs(body) ==
    LET elem == TypeOf(sfType).elem
        toks == sfTokens(body)
        set  == [i \in 1..Len(toks) |-> SetField(elem, ZeroOf(elem), toks[i], sfTag)]
    IN  IF \A i \in 1..Len(toks) : set[i].ok
        THEN sfRet = "nil" /\ sfVal = [i \in 1..Len(toks) |-> set[i].val]
        ELSE sfRet = "error" /\ sfUnchanged

\* The string without one pair of surrounding brackets, if it has one.
sfOnePairOff(s) ==
    IF Len(s) >= 2 /\ s[1] = "[" /\ s[Len(s)] = "]" THEN SubSeq(s, 2, Len(s) - 1) ELSE s

\* The string without any of the brackets it begins and ends with.
sfBracketsOff(s) ==
    LET in == { i \in 1..Len(s) : s[i] \notin {"[", "]"} }
    IN  IF in = {} THEN <<>>
        ELSE SubSeq(s, CHOOSE i \in in : \A j \in in : i <= j,
                       CHOOSE i \in in : \A j \in in : j <= i)

\* C11 (as claimed): on a slice field a string (not empty) has a single
\* pair of surrounding brackets removed, is split at the commas, each token
\* loses the blanks and quotes around it and is parsed into the element
\* type, and the field becomes a new slice of exactly those elements.
C11_SinglePairTrimmed ==
    (sfCalled /\ sfKind = "Slice" /\ sfArg # <<>>) => sfSliceIs(sfOnePairOff(sfArg))

\* C11 (amended): on a slice field a string (not empty) has every bracket
\* it begins or ends with removed, is split at the commas, each token loses
\* the blanks and quotes around it and is parsed into the element type, and
\* the field becomes a new slice of exactly those elements, the earlier
\* contents being dropped; the empty string leaves the slice as it was.
C11_SliceReplaced ==
    (sfCalled /\ sfKind = "Slice") =>
        IF sfArg = <<>> THEN sfRet = "nil" /\ sfUnchanged
        ELSE sfSliceIs(sfBracketsOff(sfArg))

\* C11 (witness): a []int holding 7, 8 was given "[1, 2, 3]" and holds
\* 1, 2, 3.
C11_Witness ==
    /\ sfType = "[]int" /\ sfPrior = <<7, 8>>
    /\ sfArg = <<"[","1",","," ","2",","," ","3","]">>
    /\ sfRet = "nil" /\ sfVal = <<1, 2, 3>>

\* The bit width of the sized integer types, and the values a type holds.
sfWidth == CASE sfType \in {"int8", "uint8"} -> 8
             [] sfType = "int16" -> 16
             [] OTHER -> 64

sfSigned == sfKind \in IntKinds

\* Whether i is a value of the field's type (no modelled string denotes a
\* number out of 64 bits).
sfFits(i) ==
    CASE sfWidth = 8 /\ sfSigned   -> -128 <= i /\ i <= 127
      [] sfWidth = 8 /\ ~sfSigned  -> 0 <= i /\ i <= 255
      [] sfWidth = 16 /\ sfSigned  -> -32768 <= i /\ i <= 32767
      [] OTHER -> sfSigned \/ 0 <= i

\* C13 (as claimed): on an integer field of a given width a string other
\* than "0" that is a base-10 integer of that width is stored as the number
\* it denotes; any other string is an error and leaves the field, so that
\* no wrapped or truncated value is ever stored.
C13_ParsedIntoWidth ==
    (sfCalled /\ sfType \in {"int8", "int16", "int64", "uint8"} /\ sfArg # <<"0">>) =>
        LET i == IF sfSigned THEN ParseInt(sfArg) ELSE ParseUint(sfArg)
        IN  IF i.ok /\ sfFits(i.v)
            THEN sfRet = "nil" /\ sfVal = i.v
            ELSE sfRet = "error" /\ sfUnchanged

\* A struct type that is neither time.Time nor a text unmarshaler.
sfPlainStruct == sfKind = "Struct" /\ sfType # "time.Time" /\ ~implementsUnmarshaler(sfType)

\* C14 (as claimed): on a struct field that is neither a time.Time nor a
\* text unmarshaler SetField returns nil and leaves the struct, all of its
\* fields, as it was, whatever the string.
C14_PlainStructLeft ==
    (sfCalled /\ sfPlainStruct) => (sfRet = "nil" /\ sfUnchanged)

\* C15 (as claimed): SetField is all-or-nothing.  Whenever it returns an
\* error, for a field of any kind, the field holds the value it had before
\* the call; a failing element of a slice or array string leaves no earlier
\* element written.
C15_ErrorLeavesField ==
    (sfCalled /\ sfRet = "error") => sfUnchanged

\* ------------------------------------------------------------------------
\* Properties of the environment decoder (checked under SpecEnv)
\* ------------------------------------------------------------------------

envDone == envRet # "none"
envCalled(i) == \E c \in 1..Len(envCalls) : envCalls[c] = i
envKind(i) == TypeOf(envFields[i].type).kind
envSet(name) == name \in DOMAIN environ /\ environ[name] # <<>>

\* The variable of a top-level field: its env tag, else its name in
\* screaming snake case.
envOwnName(i) ==
    IF envFields[i].env # <<>> THEN envFields[i].env
    ELSE ToScreamingSnake(envFields[i].name)

\* C7: Unmarshal calls SetField only on fields that are exported, not tagged
\* config:"ignore" or env:"-", not of kind func, chan, complex, interface or
\* map, and whose variable is set and not empty; every field it did not
\* call SetField on is as it was.
C7_SetFieldOnlyOnPresent ==
    envDone =>
        \A i \in 1..Len(envFields) :
            /\ envCalled(i) =>
                /\ IsUpper(envFields[i].name[1])
                /\ envFields[i].cfg # Ignore
                /\ envFields[i].env # <<"-">>
                /\ envKind(i) \notin {"Func", "Chan", "Complex64", "Complex128",
                                      "Interface", "Map"}
                /\ envSet(envOwnName(i))
            /\ ~envCalled(i) => envRec[i] = envPrior[i]

\* C7 (witness): a walk that set the first field from its variable and
\* passed over an ignored second field whose variable was set as well.
C7_Witness ==
    /\ envRet = "nil" /\ Len(envFields) = 2
    /\ envCalled(1) /\ envRec[1] # envPrior[1]
    /\ envFields[2].cfg = Ignore /\ envSet(envOwnName(2))
    /\ ~envCalled(2) /\ envRec[2] = envPrior[2]

\* What the walk of a nested struct would leave in field j of the struct at
\* field i: the value SetField makes of the variable <parent>_<child>.
envNestedName(i, j) ==
    EnvName(EnvName(<<>>, envFields[i]), NestedFields(envFields[i].type)[j])

envNestedValue(i) ==
    IF TypeOf(envFields[i].type).kind = "Ptr" THEN envRec[i][1] ELSE envRec[i]

\* C8 (as claimed): a nested struct field, or pointer to struct field, is
\* walked and not handed to SetField, and its field Count is set from the
\* variable named <parent>_COUNT.
C8_NestedStructWalked ==
    envRet = "nil" =>
        \A i \in 1..Len(envFields) :
            (IsNested(envFields[i].type) /\ ~Skipped(envFields[i])) =>
                /\ ~envCalled(i)
                /\ environ[envNestedName(i, 1)] = <<"1">>
                       => envRec[i] # <<>> /\ envNestedValue(i).Count = <<1>>

\* The first field tagged omitprefix that is not a struct (nor skipped, nor
\* of a kind the walk passes over), or 0 when there is none.
envFirstMisuse ==
    LET bad == { i \in 1..Len(envFields) :
                    /\ envFields[i].env = OmitPrefix
                    /\ ~IsNested(envFields[i].type)
                    /\ envKind(i) \notin IgnoredKinds
                    /\ ~Skipped(envFields[i]) }
    IN  IF bad = {} THEN 0 ELSE CHOOSE i \in bad : \A j \in bad : i <= j

\* C9 (as claimed): omitprefix on a struct field is accepted (the walk does
\* not fail for it); on a field that is not a struct the walk fails as
\* soon as it reaches the field, whatever the environment, and sets no
\* later field.
C9_OmitPrefixOnStructOnly ==
    (envDone /\ envTarget = "ptr") =>
        IF envFirstMisuse = 0 THEN envRet # "omitprefix"
        ELSE /\ envRet # "nil"
             /\ \A j \in 1..Len(envFields) :
                    j >= envFirstMisuse => envRec[j] = envPrior[j] /\ ~envCalled(j)


\* ------------------------------------------------------------------------
\* Properties of Load (checked under Spec)
\* ------------------------------------------------------------------------

loadDone == loadRet # "none"

\* Load got through its three stages: it returned nil or the result of
\* Validate, or left through -g or -show.
loadMerged ==
    \/ loadRet \in {"nil", "exit"}
    \/ loadDone /\ Len(ran) > 0 /\ ran[Len(ran)] = "validate"

loadRan(stage) == \E k \in 1..Len(ran) : ran[k] = stage

\* The path given on the command line (empty for none).
loadPath == FlagString(osArgs, FlagC, FlagConfig)

\* What a source supplies for field i: <<>> when it supplies nothing,
\* else <<v>>.  A string supplies the value it denotes; the empty string
\* and the zero literal of the field's kind supply nothing.
OfString(i, s) ==
    IF s = <<>> \/ (TypeOf(LoadFields[i].type).kind \in NumericKinds /\ s = <<"0">>)
    THEN <<>>
    ELSE <<SetField(LoadFields[i].type, ZeroOf(LoadFields[i].type), s, <<>>).val>>

EnvSupplies(i) ==
    LET name == EnvName(<<>>, LoadFields[i]) IN
    OfString(i, IF name \in DOMAIN environ THEN environ[name] ELSE <<>>)

FileSupplies(i) ==
    IF loadPath \in DOMAIN FileSystem /\ i \in DOMAIN FileSystem[loadPath].doc
    THEN <<FileSystem[loadPath].doc[i]>> ELSE <<>>

FlagSupplies(i) ==
    LET name == FlagName(LoadFields[i]) IN
    OfString(i, IF name \in DOMAIN osArgs THEN osArgs[name] ELSE <<>>)

LastSupplied(i) ==
    IF FlagSupplies(i) # <<>> THEN FlagSupplies(i)[1]
    ELSE IF FileSupplies(i) # <<>> THEN FileSupplies(i)[1]
    ELSE IF EnvSupplies(i) # <<>> THEN EnvSupplies(i)[1]
    ELSE LoadDefaults[i]

\* C1: with every source enabled, after Load got through its stages each
\* field holds what the last of environment, file and flags that supplies
\* a value for it supplies, and its default when none does.
C1_LastSourceWins ==
    (loadMerged /\ options = defaultOpts) =>
        \A i \in 1..Len(LoadFields) : config[i] = LastSupplied(i)

\* C1 (witness): default Value 1, VALUE=8, a file with Value 10 and
\* -value=99 end with Value 99 and the Name of the environment.
C1_Witness ==
    /\ loadRet = "nil" /\ options = defaultOpts
    /\ EnvSupplies(1) = << <<"e">> >> /\ EnvSupplies(2) = <<8>>
    /\ FileSupplies(2) = <<10>> /\ FlagSupplies(2) = <<99>>
    /\ config = << <<"e">>, 99 >>

\* The stages as they go one by one from the defaults, each on what the
\* one before left.
envOn == isEnabled(options, OptEnv)
envOut == Unmarshal("ptr", LoadFields, LoadDefaults, environ)
envFails == envOn /\ envOut.err # ""
afterEnv == IF envOn THEN envOut.rec ELSE LoadDefaults

fileOn == isEnabled(options, OptFiles) /\ loadPath # <<>>
fileOut == FileLoad(FileSystem, loadPath, afterEnv)
fileFails == fileOn /\ fileOut.err # ""
afterFile == IF fileOn THEN fileOut.rec ELSE afterEnv

flagOn == isEnabled(options, OptFlag)
flagOut == FlagUnmarshal(LoadFields, afterFile, osArgs)
flagFails == flagOn /\ flagOut.err # ""

\* Load began its stages (the command line was parsed).
loadStaged == loadDone /\ loadRet # "flag parse"

\* C4: the first stage that fails ends Load with its error, no later stage
\* and no Validate runs, and the record is as the stages up to there left
\* it; Validate runs only after every enabled stage succeeded and its
\* result is the result of Load.
C4_FailFast ==
    loadStaged =>
        /\ envFails =>
            /\ loadRet = envOut.err
            /\ ran = <<"env">>
            /\ config = envOut.rec
        /\ (~envFails /\ fileFails) =>
            /\ loadRet = fileOut.err
            /\ ran[Len(ran)] = "file"
            /\ ~loadRan("flag") /\ ~loadRan("validate")
            /\ config = afterEnv
        /\ (~envFails /\ ~fileFails /\ flagFails) =>
            /\ loadRet = flagOut.err
            /\ ran[Len(ran)] = "flag"
            /\ ~loadRan("validate")
            /\ config = flagOut.rec
        /\ loadRan("validate") =>
            /\ ~envFails /\ ~fileFails /\ ~flagFails
            /\ envOn => loadRan("env")
            /\ fileOn => loadRan("file")
            /\ flagOn => loadRan("flag")
            /\ loadRet = (IF validator = "" THEN "nil" ELSE validator)
            /\ ran[Len(ran)] = "validate"

\* C4 (witness): the environment set Value to 8, the file was of no known
\* format, and Load returned that with Value 8 kept and neither the flag
\* -value=99 applied nor the failing Validate called.
C4_Witness ==
    /\ loadRet = "unknown file type" /\ ran = <<"env", "file">>
    /\ config[2] = 8 /\ LoadDefaults[2] = 1
    /\ FlagSupplies(2) = <<99>> /\ validator = "invalid"

\* The option of the format of a path, by its extension (0: no format).
FormatOpt(f) ==
    LET ext == Trim(Ext(f), {"."}) IN
    IF ext = <<"t","o","m","l">> THEN OptToml
    ELSE IF ext = <<"j","s","o","n">> THEN OptJson
    ELSE IF ext = <<"y","a","m","l">> \/ ext = <<"y","m","l">> THEN OptYaml
    ELSE 0

loadFormatOn == FormatOpt(loadPath) # 0 /\ isEnabled(options, FormatOpt(loadPath))

\* A command line that gives -c with a file of an enabled format, or no
\* -c, and -value only with the flags enabled; no -g and no -show.
loadPlainArgs ==
    /\ loadPath # <<>> => loadFormatOn
    /\ FlagName(LoadFields[2]) \in DOMAIN osArgs => isEnabled(options, OptFlag)
    /\ FlagG \notin DOMAIN osArgs
    /\ FlagShow \notin DOMAIN osArgs

\* C5 (as claimed): a stage runs only with its option set, the file stage
\* only with a path given whose format is enabled; and with its option
\* set a stage does run when no stage before it failed: the environment
\* stage when OptEnv is set, the file stage when a path of an enabled
\* format is given (whatever the other formats' options), the flag stage
\* when OptFlag is set.
C5_StageRunsIffEnabled ==
    loadDone =>
        /\ loadRan("env") => isEnabled(options, OptEnv)
        /\ loadRan("flag") => isEnabled(options, OptFlag)
        /\ loadRan("file") => (loadPath # <<>> /\ (FormatOpt(loadPath) # 0 => loadFormatOn))
        /\ loadPlainArgs =>
            /\ isEnabled(options, OptEnv) => loadRan("env")
            /\ (loadPath # <<>> /\ loadFormatOn /\ ~envFails) => loadRan("file")

\* C6 (as claimed): whatever the options, Load ends without dereferencing
\* a handle that is nil.
C6_NoNilDereference == loadDone => loadRet # "panic"

\* ------------------------------------------------------------------------
\* Properties of Disable (checked under SpecOptions)
\* ------------------------------------------------------------------------

\* The seven option bits, and whether options hold one.
OptBits == {OptEnv, OptToml, OptYaml, OptJson, OptFlag, OptGenConf, OptShow}
optHas(o, bit) == (o \div bit) % 2 = 1

\* C12: a call of Disable clears the option bits it is given and leaves
\* every other bit as it was; a Disable of options that are all off changes
\* nothing, and a second Disable of the same options right after the first
\* leaves what the first left.
C12_DisableIdempotent ==
    \A k \in 1..Len(optLog) :
        optLog[k].call = "Disable" =>
            /\ \A bit \in OptBits :
                   optHas(optLog[k].after, bit) <=>
                       (optHas(optLog[k].before, bit) /\ ~optHas(optLog[k].arg, bit))
            /\ optLog[k].after < 2 * OptShow
            /\ (\A bit \in OptBits : optHas(optLog[k].arg, bit) => ~optHas(optLog[k].before, bit))
                   => optLog[k].after = optLog[k].before
            /\ (k > 1 /\ optLog[k - 1].call = "Disable" /\ optLog[k - 1].arg = optLog[k].arg)
                   => optLog[k].after = optLog[k - 1].after

\* C12 (witness): from the defaults, Disable(OptFlag) twice, and only the
\* flag bit is off.
C12_Witness ==
    /\ Len(optLog) = 2
    /\ optLog[1] = Called("Disable", OptFlag, defaultOpts, defaultOpts - OptFlag)
    /\ optLog[2] = Called("Disable", OptFlag, defaultOpts - OptFlag, defaultOpts - OptFlag)
    /\ options = defaultOpts - OptFlag
    /\ \A bit \in OptBits : optHas(options, bit) <=> bit # OptFlag

=============================================================================
